---- MODULE Spec2Model ----
(***************************************************************************)
(* Model of glyphDJ's app.py: the /embed request handler (temporary files, *)
(* codec probe, transcode or copy, payload encoding, tag injection, error  *)
(* reporting and cleanup) and the pure text functions it is built from     *)
(* (CSV normalisation, zlib compression, unpadded chunked base64, the      *)
(* ffmetadata escaper and the ffmetadata document).                        *)
(*                                                                         *)
(* Text is a sequence of one-character strings, bytes are a sequence of    *)
(* integers 0..255.                                                        *)
(***************************************************************************)
EXTENDS Integers, Sequences, FiniteSets, TLC

VARIABLES
    pc,           \* position of the embed handler
    FFMPEG,       \* app.py:6  TRUE: shutil.which found a path, FALSE: None
    audio_file,   \* uploaded file name, "" when the part is missing
    csv_text,     \* form field "csv", or None when missing
    form_title,   \* form field "title", or None when missing
    title,        \* app.py:51
    codec,        \* app.py:74/76
    files,        \* temporary files that exist on disk
    ran,          \* pipeline stages started so far, in order
    exc,          \* text of the exception caught at app.py:127
    tool_failed,  \* external tool that exited non-zero or did not start
    tool_stderr,  \* what that tool wrote on its error stream
    author_raw,   \* app.py:90
    author_b64,   \* app.py:96
    custom1_b64,  \* app.py:97
    ffmeta_content, \* app.py:113
    status,       \* HTTP status of the response, 0 while there is none
    body,         \* response body: error text, or <<"file", name>>
    fn,           \* function applied on its own (pure-function specifications)
    arg,          \* its argument
    ret           \* its result

reqvars == <<pc, FFMPEG, audio_file, csv_text, form_title, title, codec, files,
             ran, exc, tool_failed, tool_stderr, author_raw, author_b64,
             custom1_b64, ffmeta_content, status, body>>
vars == <<pc, FFMPEG, audio_file, csv_text, form_title, title, codec, files,
          ran, exc, tool_failed, tool_stderr, author_raw, author_b64,
          custom1_b64, ffmeta_content, status, body, fn, arg, ret>>

\* an absent text (no character is the string "None"); absent names are ""
None == <<"None">>

\* ------------------------------------------------------------------ bounds

\* longest text tried as an escaper argument
MaxStrLen == 3

\* ------------------------------------------------------------- characters

BS == "\\"
NL == "\n"
CR == "\r"
EQ == "="
SEMI == ";"
HASH == "#"
COMMA == ","
SP == " "
TAB == "\t"

RECURSIVE Strings(_, _)
\* all texts over alphabet A of length at most n
Strings(A, n) ==
    IF n = 0 THEN {<<>>}
    ELSE LET S == Strings(A, n - 1)
         IN  S \cup {<<c>> \o s : c \in A, s \in {t \in S : Len(t) = n - 1}}

Range(s) == {s[i] : i \in 1..Len(s)}

RECURSIVE Replace(_, _, _)
\* str.replace(old, new) for a one-character old
Replace(s, old, new) ==
    IF s = <<>> THEN <<>>
    ELSE (IF Head(s) = old THEN new ELSE <<Head(s)>>) \o Replace(Tail(s), old, new)

RECURSIVE Join(_, _)
\* sep.join(parts)
Join(parts, sep) ==
    IF parts = <<>> THEN <<>>
    ELSE IF Len(parts) = 1 THEN parts[1]
    ELSE parts[1] \o sep \o Join(Tail(parts), sep)

\* ----------------------------------------------------------------- escaper

\* the same replacements with the backslash rule applied last
EscapeBackslashLast(s) ==
    Replace(Replace(Replace(Replace(Replace(s,
        EQ, <<BS, EQ>>),
        SEMI, <<BS, SEMI>>),
        HASH, <<BS, HASH>>),
        NL, <<BS, NL>>),
        BS, <<BS, BS>>)

_escape_ffmeta(s) ==
    Replace(Replace(Replace(Replace(Replace(s,
        BS, <<BS, BS>>),
        EQ, <<BS, EQ>>),
        SEMI, <<BS, SEMI>>),
        HASH, <<BS, HASH>>),
        NL, <<BS, NL>>)

\* -------------------------------------------------------------- normaliser

\* the characters of a string literal
Chars(str) == [i \in 1..Len(str) |-> SubSeq(str, i, i)]

Min(a, b) == IF a < b THEN a ELSE b
SetMax(S) == CHOOSE m \in S : \A x \in S : x <= m

\* line boundaries of str.splitlines the model's texts can hold
LineBreaks == {NL, CR, "\f"}

RECURSIVE RStrip(_, _)
\* str.rstrip(chars)
RStrip(s, chars) ==
    IF s # <<>> /\ s[Len(s)] \in chars THEN RStrip(SubSeq(s, 1, Len(s) - 1), chars)
    ELSE s

RECURSIVE splitlines(_)
\* str.splitlines(): a CR LF pair is one boundary, no empty line after the
\* last boundary, no line for the empty text
splitlines(s) ==
    IF s = <<>> THEN <<>>
    ELSE LET n == Len(s)
             brk == {i \in 1..n : s[i] \in LineBreaks}
             k == IF brk = {} THEN n + 1 ELSE CHOOSE i \in brk : \A j \in brk : i <= j
             nxt == IF k > n THEN n + 1
                    ELSE IF s[k] = CR /\ k + 1 <= n /\ s[k + 1] = NL THEN k + 2
                    ELSE k + 1
         IN  <<SubSeq(s, 1, k - 1)>> \o splitlines(SubSeq(s, nxt, n))

\* app.py:88-90 before the encoding to bytes
NormalizeCsv(text) ==
    LET lines == [i \in 1..Len(splitlines(text)) |->
                     RStrip(splitlines(text)[i], {CR, NL})]
        norm_lines == [i \in 1..Len(lines) |->
                          RStrip(lines[i], {COMMA, SP, TAB}) \o <<COMMA>>]
    IN  Join(norm_lines, <<CR, NL>>) \o <<CR, NL>>

\* code points of the model's characters (all ASCII: one UTF-8 byte each)
Ord(c) ==
    CASE c = TAB -> 9 [] c = NL -> 10 [] c = "\f" -> 12 [] c = CR -> 13
      [] c = SP -> 32 [] c = HASH -> 35 [] c = COMMA -> 44 [] c = SEMI -> 59
      [] c = EQ -> 61 [] c = BS -> 92 [] c = "a" -> 97 [] c = "b" -> 98
      [] c = "c" -> 99 [] c = "x" -> 120 [] c = "y" -> 121

\* str.encode("utf-8") on ASCII text
Utf8Encode(text) == [i \in 1..Len(text) |-> Ord(text[i])]

\* ------------------------------------------------------------------- zlib

\* zlib.compress(raw, Z_BEST_COMPRESSION) while deflate emits one final block
\* with the fixed Huffman code, which it does for ASCII inputs of up to 16
\* bytes (every input of this model): header 78 DA, deflate_slow's literals
\* and matches, Adler-32.

MIN_MATCH == 3
MAX_MATCH == 258
ADLER_BASE == 65521

Pow2(n) == IF n = 0 THEN 1 ELSE 2 ^ n
BitsMSB(v, n) == [k \in 1..n |-> (v \div Pow2(n - k)) % 2]
BitsLSB(v, n) == [k \in 1..n |-> (v \div Pow2(k - 1)) % 2]

LengthBase == <<3, 4, 5, 6, 7, 8, 9, 10, 11, 13, 15, 17, 19, 23, 27, 31, 35, 43,
                51, 59, 67, 83, 99, 115, 131, 163, 195, 227, 258>>
LengthExtra == <<0, 0, 0, 0, 0, 0, 0, 0, 1, 1, 1, 1, 2, 2, 2, 2, 3, 3,
                 3, 3, 4, 4, 4, 4, 5, 5, 5, 5, 0>>
DistBase == <<1, 2, 3, 4, 5, 7, 9, 13, 17, 25, 33, 49, 65, 97, 129, 193, 257,
              385, 513, 769, 1025, 1537, 2049, 3073, 4097, 6145, 8193, 12289,
              16385, 24577>>
DistExtra == <<0, 0, 0, 0, 1, 1, 2, 2, 3, 3, 4, 4, 5, 5, 6, 6, 7,
               7, 8, 8, 9, 9, 10, 10, 11, 11, 12, 12, 13, 13>>

\* fixed Huffman code of a literal/length symbol 0..287
FixedCode(sym) ==
    IF sym < 144 THEN BitsMSB(48 + sym, 8)
    ELSE IF sym < 256 THEN BitsMSB(400 + (sym - 144), 9)
    ELSE IF sym < 280 THEN BitsMSB(sym - 256, 7)
    ELSE BitsMSB(192 + (sym - 280), 8)

\* length of the match between the text at i and the earlier text at j
MatchLen(d, i, j) ==
    SetMax({k \in 0..Min(Len(d) - i + 1, MAX_MATCH) :
               \A m \in 0..(k - 1) : d[j + m] = d[i + m]})

RECURSIVE DeflateSlow(_, _, _, _, _)
\* deflate_slow at level 9 (lazy matching): i is the current position,
\* prev_len/prev_start the match found at i-1, avail whether the byte at
\* i-1 is still to be emitted. The first byte of the input is never a match
\* candidate (its position is the hash chain's NIL).
DeflateSlow(d, i, prev_len, prev_start, avail) ==
    IF i > Len(d)
    THEN IF avail THEN <<[lit |-> d[Len(d)]]>> ELSE <<>>
    ELSE LET cand == IF Len(d) - i + 1 >= MIN_MATCH
                     THEN {j \in 2..(i - 1) : /\ MatchLen(d, i, j) >= MIN_MATCH
                                             /\ MatchLen(d, i, j) > prev_len}
                     ELSE {}
             best == IF cand = {} THEN MIN_MATCH - 1
                     ELSE SetMax({MatchLen(d, i, j) : j \in cand})
             start == IF cand = {} THEN 0
                      ELSE SetMax({j \in cand : MatchLen(d, i, j) = best})
         IN  IF prev_len >= MIN_MATCH /\ best <= prev_len
             THEN <<[len |-> prev_len, dist |-> (i - 1) - prev_start]>>
                  \o DeflateSlow(d, i + prev_len - 1, MIN_MATCH - 1, 0, FALSE)
             ELSE IF avail
             THEN <<[lit |-> d[i - 1]]>> \o DeflateSlow(d, i + 1, best, start, TRUE)
             ELSE DeflateSlow(d, i + 1, best, start, TRUE)

\* bits of one literal or match
TokenBits(t) ==
    IF "lit" \in DOMAIN t THEN FixedCode(t.lit)
    ELSE LET lc == SetMax({k \in 1..29 : LengthBase[k] <= t.len})
             dc == SetMax({k \in 1..30 : DistBase[k] <= t.dist})
         IN  FixedCode(256 + lc) \o BitsLSB(t.len - LengthBase[lc], LengthExtra[lc])
             \o BitsMSB(dc - 1, 5) \o BitsLSB(t.dist - DistBase[dc], DistExtra[dc])

RECURSIVE TokensBits(_)
TokensBits(toks) ==
    IF toks = <<>> THEN <<>> ELSE TokenBits(Head(toks)) \o TokensBits(Tail(toks))

\* the bit stream as bytes, least significant bit first, zero padded
PackBits(bits) ==
    LET bit(i) == IF i <= Len(bits) THEN bits[i] ELSE 0
    IN  [b \in 1..((Len(bits) + 7) \div 8) |->
            bit(8 * b - 7) + 2 * bit(8 * b - 6) + 4 * bit(8 * b - 5)
            + 8 * bit(8 * b - 4) + 16 * bit(8 * b - 3) + 32 * bit(8 * b - 2)
            + 64 * bit(8 * b - 1) + 128 * bit(8 * b)]

RECURSIVE AdlerSums(_, _, _)
\* <<a, b>> of Adler-32
AdlerSums(d, a, b) ==
    IF d = <<>> THEN <<a, b>>
    ELSE LET a2 == (a + Head(d)) % ADLER_BASE
         IN  AdlerSums(Tail(d), a2, (b + a2) % ADLER_BASE)

Adler32Bytes(d) ==
    LET ab == AdlerSums(d, 1, 0)
    IN  <<ab[2] \div 256, ab[2] % 256, ab[1] \div 256, ab[1] % 256>>

\* a "compressor" that hands its input back
CompressIdentity(raw) == raw

zlib_compress(raw) ==
    <<120, 218>>
    \o PackBits(<<1, 1, 0>> \o TokensBits(DeflateSlow(raw, 1, MIN_MATCH - 1, 0, FALSE))
                \o FixedCode(256))
    \o Adler32Bytes(raw)

\* ----------------------------------------------------------------- base64

ChunkWidth == 76

B64Alphabet == Chars("ABCDEFGHIJKLMNOPQRSTUVWXYZabcdefghijklmnopqrstuvwxyz0123456789+/")

\* base64.b64encode(raw).decode("ascii")
b64encode(raw) ==
    LET n == Len(raw)
        byte(i) == IF i <= n THEN raw[i] ELSE 0
        char(j) ==
            LET q == (j - 1) \div 4
                r == (j - 1) % 4
                v == byte(3 * q + 1) * 65536 + byte(3 * q + 2) * 256 + byte(3 * q + 3)
            IN  IF r >= 2 /\ 3 * q + r > n THEN EQ
                ELSE B64Alphabet[((v \div (64 ^ (3 - r))) % 64) + 1]
    IN  [j \in 1..(4 * ((n + 2) \div 3)) |-> char(j)]

\* [b64[i:i + w] for i in range(0, len(b64), w)]
Chunks(b64, w) ==
    [k \in 1..((Len(b64) + w - 1) \div w) |->
        SubSeq(b64, w * (k - 1) + 1, Min(w * k, Len(b64)))]

\* the encoder with lines one character too long
ChunkTooWide(raw_bytes) ==
    Join(Chunks(RStrip(b64encode(raw_bytes), {EQ}), ChunkWidth + 1), <<NL>>) \o <<NL>>

\* the encoder dropping the last character of every full line
ChunkDropping(raw_bytes) ==
    LET parts == Chunks(RStrip(b64encode(raw_bytes), {EQ}), ChunkWidth)
    IN  Join([k \in 1..Len(parts) |->
                 IF Len(parts[k]) = ChunkWidth /\ k < Len(parts)
                 THEN SubSeq(parts[k], 1, ChunkWidth - 1) ELSE parts[k]], <<NL>>)
        \o <<NL>>

_b64_strip_and_chunk(raw_bytes) ==
    LET b64 == RStrip(b64encode(raw_bytes), {EQ})
        parts == Chunks(b64, ChunkWidth)
    IN  Join(parts, <<NL>>) \o <<NL>>

\* --------------------------------------------------------------- document

Header == Chars(";FFMETADATA1")

\* the document with the entries sorted by key position reversed
FfmetaReversed(metadata) ==
    Join(<<Header>> \o [i \in 1..Len(metadata) |->
             metadata[Len(metadata) + 1 - i][1] \o <<EQ>>
             \o _escape_ffmeta(metadata[Len(metadata) + 1 - i][2])], <<NL>>) \o <<NL>>

\* app.py:110-113: metadata is the sequence of <<key, value>> items of the dict
ffmeta_document(metadata) ==
    LET ffmeta_lines == <<Header>> \o [i \in 1..Len(metadata) |->
                            metadata[i][1] \o <<EQ>> \o _escape_ffmeta(metadata[i][2])]
    IN  Join(ffmeta_lines, <<NL>>) \o <<NL>>

\* ---------------------------------------------------------- embed request

\* One request, from the form to the response. The external processes
\* (ffprobe, ffmpeg) end in any of the ways a process can; the calls on the
\* local file system (tempfile, save, copyfile, unlink, send_file) succeed.

\* longest csv text tried
MaxCsvLen == 2

CsvAlphabet == {COMMA, SP, TAB, CR, NL, "a"}

\* longer csv texts tried as well
CsvSamples == {Chars("a,b,c"), Chars("x,\r\ny"), Chars("a, \n\r\n,,b\r"), Chars("a\fb")}

UploadNames == {"song.ogg", "song.OGG", "song.mp3"}

\* os.path.splitext(secure_filename(name))[1].lower()
ExtLower(name) == IF name \in {"song.ogg", "song.OGG"} THEN ".ogg" ELSE ".mp3"

\* ffprobe: it cannot be run, or it prints this on stdout
ProbeOutcomes == {"raise", "opus\n", "mp3\n", ""}

\* app.py:74/76: probe.stdout.strip().lower(), "" when the probe raised
CodecOf(outcome) ==
    CASE outcome = "opus\n" -> "opus"
      [] outcome = "mp3\n" -> "mp3"
      [] OTHER -> ""

\* what a failing tool writes on its error stream
StderrTexts == {"Invalid data found when processing input"}

\* a started tool exits 0, exits non-zero having written text on its error
\* stream, or cannot be started (OSError)
ToolOutcomes == {[kind |-> "ok"], [kind |-> "oserror"]}
                \cup {[kind |-> "nonzero", stderr |-> t] : t \in StderrTexts}

\* str(CalledProcessError) of subprocess.check_call
CalledProcessErrorText ==
    <<"Command '['", "ffmpeg", "', '-y', '-i', ...]' returned non-zero exit status 1.">>
\* str(FileNotFoundError) of a path that no longer runs
OSErrorText == <<"[Errno 2] No such file or directory: '", "ffmpeg", "'">>
\* str(TypeError) of subprocess.run([None, ...])
NoneTypeErrorText == <<"expected str, bytes or os.PathLike object, not NoneType">>

\* app.py:100-107
Metadata(t, a64, c64) ==
    << <<Chars("TITLE"), t>>,
       <<Chars("ALBUM"), Chars("Glyph Tools")>>,
       <<Chars("AUTHOR"), a64>>,
       <<Chars("COMPOSER"), Chars("v1-Pacman Glyph Composer")>>,
       <<Chars("CUSTOM1"), c64>>,
       <<Chars("CUSTOM2"), Chars("26cols")>> >>

RequestIdle ==
    /\ pc = "idle"
    /\ FFMPEG = TRUE
    /\ audio_file = ""
    /\ csv_text = None
    /\ form_title = None
    /\ title = None
    /\ codec = ""
    /\ files = {}
    /\ ran = <<>>
    /\ exc = <<>>
    /\ tool_failed = ""
    /\ tool_stderr = ""
    /\ author_raw = <<>>
    /\ author_b64 = None
    /\ custom1_b64 = None
    /\ ffmeta_content = None
    /\ status = 0
    /\ body = <<>>

Init ==
    /\ pc = "validate"
    /\ FFMPEG \in BOOLEAN
    /\ audio_file \in UploadNames \cup {""}
    /\ csv_text \in Strings(CsvAlphabet, MaxCsvLen) \cup CsvSamples \cup {None}
    /\ form_title \in {None, <<>>, Chars("a=b")}
    /\ title = None
    /\ codec = ""
    /\ files = {}
    /\ ran = <<>>
    /\ exc = <<>>
    /\ tool_failed = ""
    /\ tool_stderr = ""
    /\ author_raw = <<>>
    /\ author_b64 = None
    /\ custom1_b64 = None
    /\ ffmeta_content = None
    /\ status = 0
    /\ body = <<>>
    /\ fn = ""
    /\ arg = None
    /\ ret = None

\* app.py:49-53
Validate ==
    /\ pc = "validate"
    /\ title' = IF form_title \in {None, <<>>} THEN Chars("Glyph") ELSE form_title
    /\ IF audio_file = "" \/ csv_text = None
       THEN /\ status' = 400
            /\ body' = <<"Missing audio file or csv data">>
            /\ pc' = "done"
       ELSE /\ pc' = "save"
            /\ UNCHANGED <<status, body>>
    /\ UNCHANGED <<FFMPEG, audio_file, csv_text, form_title, codec, files, ran, exc,
                   tool_failed, tool_stderr, author_raw, author_b64, custom1_b64,
                   ffmeta_content, fn, arg, ret>>

\* app.py:55-64
SaveUpload ==
    /\ pc = "save"
    /\ files' = {"tmp_in", "tmp_ogg"}
    /\ pc' = "probe"
    /\ UNCHANGED <<FFMPEG, audio_file, csv_text, form_title, title, codec, ran, exc,
                   tool_failed, tool_stderr, author_raw, author_b64, custom1_b64,
                   ffmeta_content, status, body, fn, arg, ret>>

\* app.py:68-76
Probe ==
    /\ pc = "probe"
    /\ \E outcome \in ProbeOutcomes : codec' = CodecOf(outcome)
    /\ ran' = Append(ran, "probe")
    /\ pc' = "convert"
    /\ UNCHANGED <<FFMPEG, audio_file, csv_text, form_title, title, files, exc,
                   tool_failed, tool_stderr, author_raw, author_b64, custom1_b64,
                   ffmeta_content, status, body, fn, arg, ret>>

\* app.py:79
need_transcode == (codec # "opus") \/ (ExtLower(audio_file) # ".ogg")

\* app.py:80-81 and 29-39
Transcode ==
    /\ pc = "convert"
    /\ need_transcode
    /\ ran' = Append(ran, "transcode")
    /\ IF ~FFMPEG
       THEN /\ exc' = <<"ffmpeg", " not found; please install ", "ffmpeg">>
            /\ pc' = "except"
            /\ UNCHANGED <<tool_failed, tool_stderr>>
       ELSE \E o \in ToolOutcomes :
            CASE o.kind = "ok" ->
                   /\ pc' = "encode"
                   /\ UNCHANGED <<exc, tool_failed, tool_stderr>>
              [] o.kind = "nonzero" ->
                   /\ exc' = CalledProcessErrorText
                   /\ tool_failed' = "transcode"
                   /\ tool_stderr' = o.stderr
                   /\ pc' = "except"
              [] o.kind = "oserror" ->
                   /\ exc' = OSErrorText
                   /\ tool_failed' = "transcode"
                   /\ tool_stderr' = ""
                   /\ pc' = "except"
    /\ UNCHANGED <<FFMPEG, audio_file, csv_text, form_title, title, codec, files,
                   author_raw, author_b64, custom1_b64, ffmeta_content, status, body,
                   fn, arg, ret>>

\* app.py:82-83
Copy ==
    /\ pc = "convert"
    /\ ~need_transcode
    /\ ran' = Append(ran, "copy")
    /\ pc' = "encode"
    /\ UNCHANGED <<FFMPEG, audio_file, csv_text, form_title, title, codec, files, exc,
                   tool_failed, tool_stderr, author_raw, author_b64, custom1_b64,
                   ffmeta_content, status, body, fn, arg, ret>>

\* app.py:85-113
Encode ==
    /\ pc = "encode"
    /\ author_raw' = Utf8Encode(NormalizeCsv(csv_text))
    /\ author_b64' = _b64_strip_and_chunk(zlib_compress(author_raw'))
    /\ custom1_b64' = _b64_strip_and_chunk(zlib_compress(<<>>))
    /\ ffmeta_content' = ffmeta_document(Metadata(title, author_b64', custom1_b64'))
    /\ ran' = Append(ran, "encode")
    /\ pc' = "inject"
    /\ UNCHANGED <<FFMPEG, audio_file, csv_text, form_title, title, codec, files, exc,
                   tool_failed, tool_stderr, status, body, fn, arg, ret>>

\* app.py:115-126
Inject ==
    /\ pc = "inject"
    /\ files' = files \cup {"out"}
    /\ ran' = Append(ran, "inject")
    /\ IF ~FFMPEG
       THEN /\ exc' = NoneTypeErrorText
            /\ tool_failed' = "inject"
            /\ pc' = "except"
            /\ UNCHANGED <<tool_stderr, status, body>>
       ELSE \E o \in ToolOutcomes :
            CASE o.kind = "ok" ->
                   /\ status' = 200
                   /\ body' = <<"file", "out">>
                   /\ pc' = "finally"
                   /\ UNCHANGED <<exc, tool_failed, tool_stderr>>
              [] o.kind = "nonzero" ->
                   /\ exc' = <<"ffmpeg", " metadata write failed: ", o.stderr>>
                   /\ tool_failed' = "inject"
                   /\ tool_stderr' = o.stderr
                   /\ pc' = "except"
                   /\ UNCHANGED <<status, body>>
              [] o.kind = "oserror" ->
                   /\ exc' = OSErrorText
                   /\ tool_failed' = "inject"
                   /\ tool_stderr' = ""
                   /\ pc' = "except"
                   /\ UNCHANGED <<status, body>>
    /\ UNCHANGED <<FFMPEG, audio_file, csv_text, form_title, title, codec, author_raw,
                   author_b64, custom1_b64, ffmeta_content, fn, arg, ret>>

\* app.py:127-128
Abort500 ==
    /\ pc = "except"
    /\ status' = 500
    /\ body' = <<"Embed failed: ">> \o exc
    /\ pc' = "finally"
    /\ UNCHANGED <<FFMPEG, audio_file, csv_text, form_title, title, codec, files, ran,
                   exc, tool_failed, tool_stderr, author_raw, author_b64, custom1_b64,
                   ffmeta_content, fn, arg, ret>>

\* app.py:129-135
Finally ==
    /\ pc = "finally"
    /\ files' = files \ {"tmp_in"}
    /\ pc' = "done"
    /\ UNCHANGED <<FFMPEG, audio_file, csv_text, form_title, title, codec, ran, exc,
                   tool_failed, tool_stderr, author_raw, author_b64, custom1_b64,
                   ffmeta_content, status, body, fn, arg, ret>>

Next ==
    \/ Validate
    \/ SaveUpload
    \/ Probe
    \/ Transcode
    \/ Copy
    \/ Encode
    \/ Inject
    \/ Abort500
    \/ Finally

Spec == Init /\ [][Next]_vars

\* ------------------------------------------- the functions on their own

EscAlphabet == {BS, EQ, SEMI, HASH, NL, "a"}

\* _escape_ffmeta applied to a text
InitEscape ==
    /\ RequestIdle
    /\ fn = "_escape_ffmeta"
    /\ arg \in Strings(EscAlphabet, MaxStrLen)
    /\ ret = None

CallEscape ==
    /\ fn = "_escape_ffmeta"
    /\ ret = None
    /\ ret' = _escape_ffmeta(arg)
    /\ UNCHANGED <<reqvars, fn, arg>>

SpecEscape == InitEscape /\ [][CallEscape]_vars

\* longest byte sequence tried by the chunk encoder
MaxBytes == 120

\* byte sequences: an arithmetic progression modulo 256 from a seed
ByteInputs ==
    {[i \in 1..n |-> (seed + step * i) % 256] :
        n \in 0..MaxBytes, seed \in {0, 77, 255}, step \in {0, 1, 37}}

InitChunk ==
    /\ RequestIdle
    /\ fn = "_b64_strip_and_chunk"
    /\ arg \in ByteInputs
    /\ ret = None

CallChunk ==
    /\ fn = "_b64_strip_and_chunk"
    /\ ret = None
    /\ ret' = _b64_strip_and_chunk(arg)
    /\ UNCHANGED <<reqvars, fn, arg>>

SpecChunk == InitChunk /\ [][CallChunk]_vars

\* longest value of a document entry tried
MaxValLen == 2

DocAlphabet == {BS, EQ, NL, "a"}

\* the keys of the entries, in the order given
DocKeyOrders ==
    {<<>>, <<Chars("TITLE")>>, <<Chars("AUTHOR")>>,
     <<Chars("TITLE"), Chars("AUTHOR")>>, <<Chars("AUTHOR"), Chars("TITLE")>>,
     <<Chars("CUSTOM1"), Chars("AUTHOR")>>}

InitDoc ==
    /\ RequestIdle
    /\ fn = "ffmeta_document"
    /\ \E ks \in DocKeyOrders :
         \E vs \in [1..Len(ks) -> Strings(DocAlphabet, MaxValLen)] :
            arg = [i \in 1..Len(ks) |-> <<ks[i], vs[i]>>]
    /\ ret = None

CallDoc ==
    /\ fn = "ffmeta_document"
    /\ ret = None
    /\ ret' = ffmeta_document(arg)
    /\ UNCHANGED <<reqvars, fn, arg>>

SpecDoc == InitDoc /\ [][CallDoc]_vars

\* =================================================================== claims

Specials == {BS, EQ, SEMI, HASH, NL}

RECURSIVE WellEscaped(_)
\* scanned left to right, every special character is the second half of a
\* backslash pair
WellEscaped(o) ==
    IF o = <<>> THEN TRUE
    ELSE IF Head(o) = BS THEN Len(o) >= 2 /\ WellEscaped(SubSeq(o, 3, Len(o)))
    ELSE Head(o) \notin Specials /\ WellEscaped(Tail(o))

RECURSIVE Unescape(_)
\* each pair backslash + c replaced by c
Unescape(o) ==
    IF o = <<>> THEN <<>>
    ELSE IF Head(o) = BS /\ Len(o) >= 2 THEN <<o[2]>> \o Unescape(SubSeq(o, 3, Len(o)))
    ELSE <<Head(o)>> \o Unescape(Tail(o))

RECURSIVE NewlinePairs(_)
\* number of pairs backslash + newline met by the scan
NewlinePairs(o) ==
    IF o = <<>> THEN 0
    ELSE IF Head(o) = BS /\ Len(o) >= 2
    THEN (IF o[2] = NL THEN 1 ELSE 0) + NewlinePairs(SubSeq(o, 3, Len(o)))
    ELSE NewlinePairs(Tail(o))

Count(s, c) == Cardinality({i \in 1..Len(s) : s[i] = c})

Escaped == fn = "_escape_ffmeta" /\ ret # None

\* C4: the escaper's output has no unescaped backslash, =, ;, # or newline,
\* every newline of the input is a backslash followed by a real newline, and
\* replacing each pair backslash + c by c gives the input back.
C4_EscapeReversible ==
    Escaped => /\ WellEscaped(ret)
               /\ Unescape(ret) = arg
               /\ NewlinePairs(ret) = Count(arg, NL)

C4_Witness == Escaped /\ arg = <<BS, NL, EQ>> /\ Len(ret) = 6

\* ---- chunk encoder

B64Index(c) == CHOOSE i \in 0..63 : B64Alphabet[i + 1] = c

\* newlines removed; the padding to a multiple of 4 restored (it only marks the
\* missing characters, which count as zero); base64-decoded
B64Decode(text) ==
    LET t == SelectSeq(text, LAMBDA c : c # NL)
        n == Len(t)
        idx(j) == IF j <= n THEN B64Index(t[j]) ELSE 0
        byte(k) ==
            LET q == (k - 1) \div 3
                r == (k - 1) % 3
                v == idx(4 * q + 1) * 262144 + idx(4 * q + 2) * 4096
                     + idx(4 * q + 3) * 64 + idx(4 * q + 4)
            IN  (v \div (256 ^ (2 - r))) % 256
    IN  [k \in 1..((3 * n) \div 4) |-> byte(k)]

RECURSIVE SplitOn(_, _)
\* the pieces of s between occurrences of c
SplitOn(s, c) ==
    LET at == {i \in 1..Len(s) : s[i] = c}
    IN  IF at = {} THEN <<s>>
        ELSE LET k == CHOOSE i \in at : \A j \in at : i <= j
             IN  <<SubSeq(s, 1, k - 1)>> \o SplitOn(SubSeq(s, k + 1, Len(s)), c)

Chunked == fn = "_b64_strip_and_chunk" /\ ret # None

\* C5: removing the newlines of the block, restoring the padding and
\* base64-decoding gives back exactly the bytes that were encoded.
C5_ChunkRoundTrip ==
    Chunked => /\ Range(ret) \subseteq Range(B64Alphabet) \cup {NL}
               /\ Len(SelectSeq(ret, LAMBDA c : c # NL)) % 4 # 1
               /\ B64Decode(ret) = arg

C5_Witness == Chunked /\ Len(arg) = 58 /\ Count(ret, NL) = 2

\* C6: the block holds no "=", ends with exactly one newline, every data line
\* but the last has exactly 76 characters and the last has 1 to 76; the empty
\* byte sequence gives the single newline.
C6_ChunkShape ==
    Chunked =>
        LET data == SubSeq(ret, 1, Len(ret) - 1)
            lines == SplitOn(data, NL)
        IN  /\ EQ \notin Range(ret)
            /\ Len(ret) >= 1 /\ ret[Len(ret)] = NL
            /\ (arg = <<>>) <=> (ret = <<NL>>)
            /\ data # <<>> =>
                 /\ \A k \in 1..(Len(lines) - 1) : Len(lines[k]) = 76
                 /\ Len(lines[Len(lines)]) \in 1..76

C6_Witness == Chunked /\ Len(arg) = 115 /\ Len(ret) = 157

\* ---- document

RECURSIVE LogicalLines(_, _)
\* the lines of a document: a newline ends a line unless a backslash consumed it
LogicalLines(s, cur) ==
    IF s = <<>> THEN <<>>
    ELSE IF Head(s) = BS /\ Len(s) >= 2
    THEN LogicalLines(SubSeq(s, 3, Len(s)), cur \o <<s[1], s[2]>>)
    ELSE IF Head(s) = NL THEN <<cur>> \o LogicalLines(Tail(s), <<>>)
    ELSE LogicalLines(Tail(s), Append(cur, Head(s)))

RECURSIVE Leftover(_, _)
\* what follows the last line terminator
Leftover(s, cur) ==
    IF s = <<>> THEN cur
    ELSE IF Head(s) = BS /\ Len(s) >= 2
    THEN Leftover(SubSeq(s, 3, Len(s)), cur \o <<s[1], s[2]>>)
    ELSE IF Head(s) = NL THEN Leftover(Tail(s), <<>>)
    ELSE Leftover(Tail(s), Append(cur, Head(s)))

RECURSIVE FirstUnescaped(_, _, _)
\* index of the first c of line that no backslash consumed, from i on; 0 if none
FirstUnescaped(line, c, i) ==
    IF i > Len(line) THEN 0
    ELSE IF line[i] = BS THEN FirstUnescaped(line, c, i + 2)
    ELSE IF line[i] = c THEN i
    ELSE FirstUnescaped(line, c, i + 1)

\* <<key, value>> of an entry line
ParseEntry(line) ==
    LET k == FirstUnescaped(line, EQ, 1)
    IN  IF k = 0 THEN <<line>>
        ELSE <<Unescape(SubSeq(line, 1, k - 1)), Unescape(SubSeq(line, k + 1, Len(line)))>>

RECURSIVE TerminatedLines(_)
\* every entry as KEY=escaped value and one newline
TerminatedLines(entries) ==
    IF entries = <<>> THEN <<>>
    ELSE Head(entries)[1] \o <<EQ>> \o _escape_ffmeta(Head(entries)[2]) \o <<NL>>
         \o TerminatedLines(Tail(entries))

Built == fn = "ffmeta_document" /\ ret # None

\* C7: the document is the header line and one line KEY=escaped value per
\* entry, in the order given, each ended by one newline and nothing else; the
\* parser that splits at the newlines no backslash consumed and unescapes gets
\* back exactly the entries, in order.
C7_DocumentRoundTrip ==
    Built =>
        LET ls == LogicalLines(ret, <<>>)
        IN  /\ ret = Header \o <<NL>> \o TerminatedLines(arg)
            /\ Leftover(ret, <<>>) = <<>>
            /\ Len(ls) = Len(arg) + 1
            /\ ls[1] = Header
            /\ \A i \in 1..Len(arg) : ParseEntry(ls[i + 1]) = arg[i]

C7_Witness ==
    /\ Built
    /\ Len(arg) = 2
    /\ arg[1] = <<Chars("AUTHOR"), <<"a", NL>>>>
    /\ arg[2] = <<Chars("TITLE"), <<BS, NL>>>>

\* ---- embed request

Encoded == pc \in {"inject", "except", "finally", "done"} /\ custom1_b64 # None

\* C1: when the request is finished, no temporary file it created is left.
C1_NoTempFileLeft == pc = "done" => files = {}

\* C2: the normalised text of the empty csv is one line ",\r\n", and every line
\* of a normalised text ends with exactly one comma and one CRLF.
C2_LinesEndCommaCRLF ==
    Encoded =>
        LET n == Len(author_raw)
        IN  /\ csv_text = <<>> => author_raw = <<44, 13, 10>>
            /\ n >= 3 /\ author_raw[n - 1] = 13 /\ author_raw[n] = 10
            /\ \A i \in 1..n :
                 /\ author_raw[i] = 13 => i < n /\ author_raw[i + 1] = 10
                 /\ author_raw[i] = 10 =>
                      /\ i > 2 /\ author_raw[i - 1] = 13 /\ author_raw[i - 2] = 44
                      /\ i > 3 => author_raw[i - 3] # 44

\* C3: normalising the normalised text again gives the same text.
C3_NormalizeIdempotent ==
    Encoded => Utf8Encode(NormalizeCsv(NormalizeCsv(csv_text))) = author_raw

\* C8 as stated: compressing zero bytes and chunk-encoding the result gives the
\* single newline.
C8_EmptyBlockIsNewline == Encoded => custom1_b64 = <<NL>>

\* C8 amended: compressing zero bytes gives the 8-byte zlib stream
\* 78 DA 03 00 00 00 00 01, whose block is the one data line eNoDAAAAAAE
\* followed by one newline.
C8_EmptyBlockIsZlibStream ==
    Encoded => /\ custom1_b64 = Chars("eNoDAAAAAAE") \o <<NL>>
               /\ B64Decode(custom1_b64) = <<120, 218, 3, 0, 0, 0, 0, 1>>

C8_Witness == pc = "inject" /\ Len(custom1_b64) = 12 /\ csv_text = <<>>

\* C9: a tool that exits non-zero or cannot be started ends the request with a
\* 500, no file, no later stage, and the text the tool wrote on its error stream
\* in the error.
C9_ToolFailureReported ==
    (pc = "done" /\ tool_failed # "") =>
        /\ status = 500
        /\ body[1] # "file"
        /\ ran[Len(ran)] = tool_failed
        /\ tool_stderr # "" => tool_stderr \in Range(body)

\* C10: without ffmpeg every request that passes validation fails with an error
\* that names ffmpeg.
C10_MissingFfmpegNamed ==
    (pc = "done" /\ ~FFMPEG /\ status # 400) =>
        /\ status = 500
        /\ "ffmpeg" \in Range(body)

====
